---- MODULE Spec2Model ----
(***************************************************************************)
(* Model of src/handlers/migrationsHandler.js: the MigrationsHandler class *)
(* that drives Umzug (storage "sequelize") over one Sequelize connection.  *)
(*                                                                         *)
(* Migration units are the files 1..NumUnits, in file-name order.  The     *)
(* ledger is the sequence of names umzug.executed() returns; a logged      *)
(* migration is added at its end, so its last record is the most recent.   *)
(* Every call into a collaborator (a ledger query, a ledger write, a       *)
(* unit's up() or down(), the close of the connection) is one step and is  *)
(* recorded in `log`, together with the handler's own report lines.  A     *)
(* collaborator call may raise; a ledger call on a closed connection       *)
(* always raises.                                                          *)
(***************************************************************************)
EXTENDS Integers, Sequences, FiniteSets, TLC

\* Number of migration files in the migrations directory.
NumUnits == 3
\* Largest --times value tried by revert.
MaxTimes == 4

\* The value JavaScript gives for an index outside an array, and for name = null.
Undefined == 0

Units == 1..NumUnits
\* Names a caller may pass to revert: null, every file, and one name with no file.
Names == 0..(NumUnits + 1)
Times == 0..MaxTimes

VARIABLES
  ledger,             \* rows of the SequelizeMeta table, in executed() order
  conn,               \* this.sequelize: "none", "open" or "closed"
  pc,                 \* position inside the running handler
  op,                 \* the running (or last) invocation and its arguments
  pendingMigrations,  \* migrate: line 85
  executedFromPending,\* migrate: line 117
  success,            \* migrate: line 81
  todo,               \* Umzug: migrations the current up()/down() still has to run
  ran,                \* Umzug: migrations the current up()/down() has run
  outcome,            \* "none" while running, then "returned" or "threw"
  retval,             \* "true", "false", "void", or "none"
  log,                \* collaborator calls and report lines of this invocation
  ledger0,            \* the ledger when this invocation started
  prev                \* summary of the invocation before this one

vars == <<ledger, conn, pc, op, pendingMigrations, executedFromPending, success,
          todo, ran, outcome, retval, log, ledger0, prev>>

----------------------------------------------------------------------------
\* Sequence helpers (Array.prototype.reverse / slice / indexOf / filter).

Range(s) == {s[k] : k \in 1..Len(s)}

Reverse(s) == [k \in 1..Len(s) |-> s[Len(s) + 1 - k]]

Min(a, b) == IF a < b THEN a ELSE b

\* s.slice(0, n) for n >= 0
Slice0(s, n) == SubSeq(s, 1, Min(n, Len(s)))

\* s[k] with a 0-based index k, as JavaScript reads it
At0(s, k) == IF k + 1 \in 1..Len(s) THEN s[k + 1] ELSE Undefined

Without(s, u) == SelectSeq(s, LAMBDA x : x # u)

\* A log entry: what was called or reported, on which unit, whether it succeeded,
\* and the state of the connection when it was issued.
Ev(e, u, ok) == [e |-> e, u |-> u, ok |-> ok, on |-> conn]
Rep(e, u) == Ev(e, u, TRUE)
NameEvents(e, s) == [k \in 1..Len(s) |-> Rep(e, s[k])]

----------------------------------------------------------------------------
\* Collaborators.

\* The migration files, in the order Umzug loads them (sorted by file name).
Files == [k \in 1..NumUnits |-> k]

\* Mutant: pending() does not leave out the executed files.
UmzugPending_AllFiles(led) == Files

\* umzug.pending(): all files that are not executed, in file order.
UmzugPending(led) == SelectSeq(Files, LAMBDA f : f \notin Range(led))

\* Can a ledger query or write succeed?  Not on a closed connection.
LedgerOutcomes == IF conn = "open" THEN BOOLEAN ELSE {FALSE}

NoOp == [name |-> "none", revertError |-> FALSE, times |-> 1, rname |-> Undefined,
         status |-> "pending"]

NoPrev == [name |-> "none", outcome |-> "none", retval |-> "none",
           revertError |-> FALSE, broken |-> Undefined]

\* The name the last "Something wrong with ..." line of the log reported.
Reported(l) ==
  LET idx == {k \in 1..Len(l) : l[k].e = "brokenMigration"}
  IN IF idx = {} THEN Undefined ELSE l[CHOOSE k \in idx : \A m \in idx : m <= k].u

Summary == [name |-> op.name, outcome |-> outcome, retval |-> retval,
            revertError |-> op.revertError, broken |-> Reported(log)]

Init ==
  /\ ledger = <<>>
  /\ conn = "none"
  /\ pc = "idle"
  /\ op = NoOp
  /\ pendingMigrations = <<>>
  /\ executedFromPending = <<>>
  /\ success = FALSE
  /\ todo = <<>>
  /\ ran = <<>>
  /\ outcome = "none"
  /\ retval = "none"
  /\ log = <<>>
  /\ ledger0 = <<>>
  /\ prev = NoPrev

Idle == pc \in {"idle", "done"}

\* initialize(): a new handler run opens its connection and builds Umzug on it.
Initialize ==
  /\ Idle
  /\ conn' = "open"
  /\ UNCHANGED <<ledger, pc, op, pendingMigrations, executedFromPending, success,
                 todo, ran, outcome, retval, log, ledger0, prev>>

\* The start of any public operation: fresh locals, and the log starts with `first`.
Begin(o, first, next) ==
  /\ Idle
  /\ conn # "none"
  /\ op' = o
  /\ prev' = Summary
  /\ ledger0' = ledger
  /\ pendingMigrations' = <<>>
  /\ executedFromPending' = <<>>
  /\ success' = FALSE
  /\ todo' = <<>>
  /\ ran' = <<>>
  /\ outcome' = "none"
  /\ retval' = "none"
  /\ log' = first
  /\ pc' = next

\* An error leaves the handler: nothing after the failing await runs.
Throw(events) ==
  /\ log' = log \o events
  /\ pc' = "done"
  /\ outcome' = "threw"
  /\ retval' = "none"

----------------------------------------------------------------------------
\* migrate(revertError)

StartMigrate ==
  \E re \in BOOLEAN :
    /\ Begin([NoOp EXCEPT !.name = "migrate", !.revertError = re],
             <<Rep("lookingForPending", 0)>>, "m_pending")
    /\ UNCHANGED <<ledger, conn>>

\* lines 85-91 and 147-150: the pending query and the branch on its length
MigratePending ==
  /\ pc = "m_pending"
  /\ \E ok \in LedgerOutcomes :
       IF ~ok
       THEN /\ Throw(<<Ev("pending", 0, FALSE)>>)
            /\ UNCHANGED <<pendingMigrations, success>>
       ELSE LET p == UmzugPending(ledger) IN
            /\ pendingMigrations' = p
            /\ IF Len(p) > 0
               THEN /\ log' = log \o <<Ev("pending", 0, TRUE), Rep("applyingPending", 0)>>
                    /\ success' = success
                    /\ pc' = "m_up"
               ELSE /\ log' = log \o <<Ev("pending", 0, TRUE), Rep("noPending", 0)>>
                    /\ success' = TRUE
                    /\ pc' = "m_close"
            /\ UNCHANGED <<outcome, retval>>
  /\ UNCHANGED <<ledger, conn, op, executedFromPending, todo, ran, ledger0, prev>>

\* line 93-94: umzug.up() with no options runs whatever umzug.pending() returns
UmzugUp ==
  /\ pc = "m_up"
  /\ \E ok \in LedgerOutcomes :
       /\ log' = Append(log, Ev("pending", 0, ok))
       /\ IF ok
          THEN /\ todo' = UmzugPending(ledger)
               /\ pc' = IF UmzugPending(ledger) = <<>> THEN "m_then" ELSE "u_run"
          ELSE /\ todo' = todo
               /\ pc' = "m_catch"
  /\ ran' = <<>>
  /\ UNCHANGED <<ledger, conn, op, pendingMigrations, executedFromPending, success,
                 outcome, retval, ledger0, prev>>

\* Mutant: a rejected up() does not stop the run.
UmzugRunUp_KeepGoing ==
  /\ pc = "u_run"
  /\ \E ok \in BOOLEAN :
       /\ log' = Append(log, Ev("up", Head(todo), ok))
       /\ pc' = "u_log"
  /\ UNCHANGED <<ledger, conn, op, pendingMigrations, executedFromPending, success,
                 todo, ran, outcome, retval, ledger0, prev>>

\* Umzug execute, method "up": the next migration's up()
UmzugRunUp ==
  /\ pc = "u_run"
  /\ \E ok \in BOOLEAN :
       /\ log' = Append(log, Ev("up", Head(todo), ok))
       /\ pc' = IF ok THEN "u_log" ELSE "m_catch"
  /\ UNCHANGED <<ledger, conn, op, pendingMigrations, executedFromPending, success,
                 todo, ran, outcome, retval, ledger0, prev>>

\* Umzug execute, method "up": storage.logMigration after a successful up()
UmzugLogMigration ==
  /\ pc = "u_log"
  /\ \E ok \in LedgerOutcomes :
       /\ log' = Append(log, Ev("logMigration", Head(todo), ok))
       /\ IF ok
          THEN /\ ledger' = Append(ledger, Head(todo))
               /\ ran' = Append(ran, Head(todo))
               /\ todo' = Tail(todo)
               /\ pc' = IF Tail(todo) = <<>> THEN "m_then" ELSE "u_run"
          ELSE /\ UNCHANGED <<ledger, ran, todo>>
               /\ pc' = "m_catch"
  /\ UNCHANGED <<conn, op, pendingMigrations, executedFromPending, success,
                 outcome, retval, ledger0, prev>>

\* Mutant: the then handler does not set success.
MigrateThen_ForgetsSuccess ==
  /\ pc = "m_then"
  /\ success' = success
  /\ log' = log \o <<Rep("appliedCount", Len(ran))>> \o NameEvents("appliedName", ran)
  /\ pc' = "m_close"
  /\ UNCHANGED <<ledger, conn, op, pendingMigrations, executedFromPending,
                 todo, ran, outcome, retval, ledger0, prev>>

\* lines 95-105: up() resolved
MigrateThen ==
  /\ pc = "m_then"
  /\ success' = TRUE
  /\ log' = log \o <<Rep("appliedCount", Len(ran))>> \o NameEvents("appliedName", ran)
  /\ pc' = "m_close"
  /\ UNCHANGED <<ledger, conn, op, pendingMigrations, executedFromPending,
                 todo, ran, outcome, retval, ledger0, prev>>

\* executed.indexOf(x): 0-based position of x, -1 when absent
IndexOf(executed, x) ==
  IF x \in Range(executed)
  THEN (CHOOSE k \in 1..Len(executed) : executed[k] = x) - 1
  ELSE -1

\* Mutant: the filter compares indexOf with 0 instead of -1.
ExecutedFromPending_IndexNotZero(pending, executed) ==
  SelectSeq(pending, LAMBDA p : IndexOf(executed, p) # 0)

\* lines 116-119: the pending migrations that the ledger now holds
ExecutedFromPending(pending, executed) ==
  SelectSeq(pending, LAMBDA p : IndexOf(executed, p) # -1)

\* Mutant: the report indexes one past the length.
BrokenName_OnePast(pending, fromPending) ==
  IF Len(fromPending) > 0 THEN At0(pending, Len(fromPending) + 1) ELSE At0(pending, 0)

\* Mutant: the report always names the first pending migration.
BrokenName_AlwaysFirst(pending, fromPending) == At0(pending, 0)

\* Mutant: the report indexes with length - 1, naming the last committed migration.
BrokenName_LastCommitted(pending, fromPending) ==
  IF Len(fromPending) > 0 THEN At0(pending, Len(fromPending) - 1) ELSE At0(pending, 0)

\* lines 121-126 and 141-145: the name given in "Something wrong with ..."
BrokenName(pending, fromPending) ==
  IF Len(fromPending) > 0 THEN At0(pending, Len(fromPending)) ELSE At0(pending, 0)

\* lines 131-134: the migrations handed to umzug.down() by the auto-revert
AutoRevertMigrations(fromPending) == fromPending

\* Mutant: the revertError flag is not consulted.
ShouldRevert_IgnoreFlag(fromPending, revertError) == Len(fromPending) > 0

\* lines 121 and 128: is the auto-revert run?
ShouldRevert(fromPending, revertError) == Len(fromPending) > 0 /\ revertError

\* lines 106-146: up() rejected
MigrateCatch ==
  /\ pc = "m_catch"
  /\ \E ok \in LedgerOutcomes :
       LET head == <<Rep("errorApplying", 0), Rep("lookingForBroken", 0)>> IN
       IF ~ok
       THEN /\ Throw(head \o <<Ev("executed", 0, FALSE)>>)
            /\ UNCHANGED <<executedFromPending, todo, ran>>
       ELSE LET efp == ExecutedFromPending(pendingMigrations, ledger)
                said == log \o head \o <<Ev("executed", 0, TRUE),
                                         Rep("brokenMigration",
                                             BrokenName(pendingMigrations, efp))>>
            IN
            /\ executedFromPending' = efp
            /\ IF ShouldRevert(efp, op.revertError)
               THEN /\ log' = Append(said, Rep("reverting", 0))
                    /\ todo' = AutoRevertMigrations(efp)
                    /\ ran' = <<>>
                    /\ pc' = "d_run"
               ELSE /\ log' = said
                    /\ UNCHANGED <<todo, ran>>
                    /\ pc' = "m_close"
            /\ UNCHANGED <<outcome, retval>>
  /\ UNCHANGED <<ledger, conn, op, pendingMigrations, success, ledger0, prev>>

\* lines 135-139: the auto-revert's down() resolved
MigrateReverted ==
  /\ pc = "m_reverted"
  /\ log' = log \o NameEvents("revertedName", ran)
  /\ pc' = "m_close"
  /\ UNCHANGED <<ledger, conn, op, pendingMigrations, executedFromPending, success,
                 todo, ran, outcome, retval, ledger0, prev>>

\* Mutant: migrate returns true whatever happened.
MigrateClose_ReturnTrue ==
  /\ pc = "m_close"
  /\ conn' = "closed"
  /\ log' = Append(log, Ev("close", 0, TRUE))
  /\ pc' = "done"
  /\ outcome' = "returned"
  /\ retval' = "true"
  /\ UNCHANGED <<ledger, op, pendingMigrations, executedFromPending, success,
                 todo, ran, ledger0, prev>>

\* lines 152-154
MigrateClose ==
  /\ pc = "m_close"
  /\ conn' = "closed"
  /\ log' = Append(log, Ev("close", 0, TRUE))
  /\ pc' = "done"
  /\ outcome' = "returned"
  /\ retval' = IF success THEN "true" ELSE "false"
  /\ UNCHANGED <<ledger, op, pendingMigrations, executedFromPending, success,
                 todo, ran, ledger0, prev>>

----------------------------------------------------------------------------
\* Umzug execute, method "down": shared by migrate's auto-revert, revert and reset.

\* Where the handler continues when umzug.down() resolves.
AfterDown ==
  CASE op.name = "migrate" -> "m_reverted"
    [] op.name = "revert"  -> "r_then"
    [] op.name = "reset"   -> "x_then"

\* the next migration's down(); it runs whether or not the ledger holds the name
UmzugRunDown ==
  /\ pc = "d_run"
  /\ \E ok \in BOOLEAN :
       IF ok
       THEN /\ log' = Append(log, Ev("down", Head(todo), TRUE))
            /\ pc' = "d_unlog"
            /\ UNCHANGED <<outcome, retval>>
       ELSE Throw(<<Ev("down", Head(todo), FALSE)>>)
  /\ UNCHANGED <<ledger, conn, op, pendingMigrations, executedFromPending, success,
                 todo, ran, ledger0, prev>>

\* storage.unlogMigration after a successful down()
UmzugUnlogMigration ==
  /\ pc = "d_unlog"
  /\ \E ok \in LedgerOutcomes :
       IF ok
       THEN /\ log' = Append(log, Ev("unlogMigration", Head(todo), TRUE))
            /\ ledger' = Without(ledger, Head(todo))
            /\ ran' = Append(ran, Head(todo))
            /\ todo' = Tail(todo)
            /\ pc' = IF Tail(todo) = <<>> THEN AfterDown ELSE "d_run"
            /\ UNCHANGED <<outcome, retval>>
       ELSE /\ Throw(<<Ev("unlogMigration", Head(todo), FALSE)>>)
            /\ UNCHANGED <<ledger, ran, todo>>
  /\ UNCHANGED <<conn, op, pendingMigrations, executedFromPending, success,
                 ledger0, prev>>

----------------------------------------------------------------------------
\* revert(times, name)

StartRevert ==
  \E t \in Times, n \in Names :
    /\ Begin([NoOp EXCEPT !.name = "revert", !.times = t, !.rname = n], <<>>, "r_args")
    /\ UNCHANGED <<ledger, conn>>

\* Mutant: the slice stops one short.
RollbackMigrations_OneShort(executed, times) == Slice0(Reverse(executed), times - 1)

\* Mutant: the executed list is not reversed before it is sliced.
RollbackMigrations_NoReverse(executed, times) == Slice0(executed, times)

\* line 181: executedMigrations.reverse().slice(0, times)
RollbackMigrations(executed, times) == Slice0(Reverse(executed), times)

\* Mutant: the check of times does not look at the name.
InvalidArgs_IgnoreName(times, name) == times < 1

\* line 158: times < 1 && !name
InvalidArgs(times, name) == times < 1 /\ name = Undefined

\* lines 158-166, 173-174, 197-198: the argument check and the choice of mode
RevertArgs ==
  /\ pc = "r_args"
  /\ IF InvalidArgs(op.times, op.rname)
     THEN /\ Throw(<<>>)
          /\ todo' = todo
     ELSE /\ log' = Append(log, Rep("tryingRevert",
                                    IF op.rname # Undefined THEN op.rname ELSE op.times))
          /\ UNCHANGED <<outcome, retval>>
          /\ IF op.rname # Undefined
             THEN /\ todo' = <<op.rname>>
                  /\ pc' = "r_find"
             ELSE /\ todo' = todo
                  /\ pc' = IF op.times > 1 THEN "r_exec" ELSE "r_last"
  /\ UNCHANGED <<ledger, conn, op, pendingMigrations, executedFromPending, success,
                 ran, ledger0, prev>>

\* lines 163-166: umzug.down({migrations: [name]}) first looks the file up
UmzugFindMigration ==
  /\ pc = "r_find"
  /\ IF Head(todo) \in Range(Files)
     THEN /\ pc' = "d_run"
          /\ UNCHANGED <<log, outcome, retval>>
     ELSE Throw(<<Ev("findMigration", Head(todo), FALSE)>>)
  /\ UNCHANGED <<ledger, conn, op, pendingMigrations, executedFromPending, success,
                 todo, ran, ledger0, prev>>

\* lines 176-187 and 194-196: revert the last `times` migrations
RevertExecuted ==
  /\ pc = "r_exec"
  /\ \E ok \in LedgerOutcomes :
       IF ~ok
       THEN /\ Throw(<<Ev("executed", 0, FALSE)>>)
            /\ todo' = todo
       ELSE LET rollbackMigrations == RollbackMigrations(ledger, op.times) IN
            /\ UNCHANGED <<outcome, retval>>
            /\ IF Len(rollbackMigrations) > 0
               THEN /\ log' = Append(log, Ev("executed", 0, TRUE))
                    /\ todo' = rollbackMigrations
                    /\ pc' = "d_run"
               ELSE /\ log' = log \o <<Ev("executed", 0, TRUE), Rep("nothingToRevert", 0)>>
                    /\ todo' = todo
                    /\ pc' = "r_close"
  /\ UNCHANGED <<ledger, conn, op, pendingMigrations, executedFromPending, success,
                 ran, ledger0, prev>>

\* line 199: umzug.down() with no options reverts the last executed migration,
\* and resolves to [] when there is none
UmzugDownLast ==
  /\ pc = "r_last"
  /\ \E ok \in LedgerOutcomes :
       IF ~ok
       THEN /\ Throw(<<Ev("executed", 0, FALSE)>>)
            /\ todo' = todo
       ELSE /\ log' = Append(log, Ev("executed", 0, TRUE))
            /\ todo' = Slice0(Reverse(ledger), 1)
            /\ pc' = IF ledger = <<>> THEN "r_then" ELSE "d_run"
            /\ UNCHANGED <<outcome, retval>>
  /\ UNCHANGED <<ledger, conn, op, pendingMigrations, executedFromPending, success,
                 ran, ledger0, prev>>

\* lines 167-172, 188-193, 199-204: down() resolved
RevertThen ==
  /\ pc = "r_then"
  /\ log' = log \o <<Rep("revertedCount", Len(ran))>> \o NameEvents("revertedName", ran)
  /\ pc' = "r_close"
  /\ UNCHANGED <<ledger, conn, op, pendingMigrations, executedFromPending, success,
                 todo, ran, outcome, retval, ledger0, prev>>

\* line 207
RevertClose ==
  /\ pc = "r_close"
  /\ conn' = "closed"
  /\ log' = Append(log, Ev("close", 0, TRUE))
  /\ pc' = "done"
  /\ outcome' = "returned"
  /\ retval' = "void"
  /\ UNCHANGED <<ledger, op, pendingMigrations, executedFromPending, success,
                 todo, ran, ledger0, prev>>

----------------------------------------------------------------------------
\* reset()

StartReset ==
  /\ Begin([NoOp EXCEPT !.name = "reset"], <<Rep("tryingReset", 0)>>, "x_exec")
  /\ UNCHANGED <<ledger, conn>>

\* Mutant: the executed migrations are reverted oldest first.
UmzugDownAll_OldestFirst ==
  /\ pc = "x_exec"
  /\ \E ok \in LedgerOutcomes :
       IF ~ok
       THEN /\ Throw(<<Ev("executed", 0, FALSE)>>)
            /\ todo' = todo
       ELSE /\ log' = Append(log, Ev("executed", 0, TRUE))
            /\ todo' = ledger
            /\ pc' = IF ledger = <<>> THEN "x_then" ELSE "d_run"
            /\ UNCHANGED <<outcome, retval>>
  /\ UNCHANGED <<ledger, conn, op, pendingMigrations, executedFromPending, success,
                 ran, ledger0, prev>>

\* lines 213-216: umzug.down({to: 0}) reverts every executed migration, last first
UmzugDownAll ==
  /\ pc = "x_exec"
  /\ \E ok \in LedgerOutcomes :
       IF ~ok
       THEN /\ Throw(<<Ev("executed", 0, FALSE)>>)
            /\ todo' = todo
       ELSE /\ log' = Append(log, Ev("executed", 0, TRUE))
            /\ todo' = Reverse(ledger)
            /\ pc' = IF ledger = <<>> THEN "x_then" ELSE "d_run"
            /\ UNCHANGED <<outcome, retval>>
  /\ UNCHANGED <<ledger, conn, op, pendingMigrations, executedFromPending, success,
                 ran, ledger0, prev>>

\* lines 217-222
ResetThen ==
  /\ pc = "x_then"
  /\ log' = log \o <<Rep("revertedCount", Len(ran))>> \o NameEvents("revertedName", ran)
  /\ pc' = "x_close"
  /\ UNCHANGED <<ledger, conn, op, pendingMigrations, executedFromPending, success,
                 todo, ran, outcome, retval, ledger0, prev>>

\* line 224
ResetClose ==
  /\ pc = "x_close"
  /\ conn' = "closed"
  /\ log' = Append(log, Ev("close", 0, TRUE))
  /\ pc' = "done"
  /\ outcome' = "returned"
  /\ retval' = "void"
  /\ UNCHANGED <<ledger, op, pendingMigrations, executedFromPending, success,
                 todo, ran, ledger0, prev>>

----------------------------------------------------------------------------
\* list(status)

StartList ==
  \E st \in {"pending", "executed"} :
    /\ Begin([NoOp EXCEPT !.name = "list", !.status = st], <<Rep("searching", 0)>>,
             "l_query")
    /\ UNCHANGED <<ledger, conn>>

\* Mutant: the pending branch lists every file.
ListFound_AllFiles(status, led) == IF status = "executed" THEN led ELSE Files

\* lines 230-231 and 237-238: the migrations the chosen query resolves to
ListFound(status, led) == IF status = "executed" THEN led ELSE UmzugPending(led)

\* lines 230-244
ListQuery ==
  /\ pc = "l_query"
  /\ \E ok \in LedgerOutcomes :
       LET call == IF op.status = "executed" THEN "executed" ELSE "pending"
           found == ListFound(op.status, ledger)
       IN
       IF ~ok
       THEN Throw(<<Ev(call, 0, FALSE)>>)
       ELSE /\ log' = log \o <<Ev(call, 0, TRUE), Rep("foundCount", Len(found))>>
                          \o NameEvents("foundName", found)
            /\ pc' = "l_close"
            /\ UNCHANGED <<outcome, retval>>
  /\ UNCHANGED <<ledger, conn, op, pendingMigrations, executedFromPending, success,
                 todo, ran, ledger0, prev>>

\* line 246
ListClose ==
  /\ pc = "l_close"
  /\ conn' = "closed"
  /\ log' = Append(log, Ev("close", 0, TRUE))
  /\ pc' = "done"
  /\ outcome' = "returned"
  /\ retval' = "void"
  /\ UNCHANGED <<ledger, op, pendingMigrations, executedFromPending, success,
                 todo, ran, ledger0, prev>>

----------------------------------------------------------------------------
Next ==
  \/ Initialize
  \/ StartMigrate
  \/ MigratePending
  \/ UmzugUp
  \/ UmzugRunUp
  \/ UmzugLogMigration
  \/ MigrateThen
  \/ MigrateCatch
  \/ MigrateReverted
  \/ MigrateClose
  \/ UmzugRunDown
  \/ UmzugUnlogMigration
  \/ StartRevert
  \/ RevertArgs
  \/ UmzugFindMigration
  \/ RevertExecuted
  \/ UmzugDownLast
  \/ RevertThen
  \/ RevertClose
  \/ StartReset
  \/ UmzugDownAll
  \/ ResetThen
  \/ ResetClose
  \/ StartList
  \/ ListQuery
  \/ ListClose

Spec == Init /\ [][Next]_vars

----------------------------------------------------------------------------
\* Vocabulary of the properties.

Done == pc = "done"

\* The events of l whose kind is in `kinds`, in order.
Calls(l, kinds) == SelectSeq(l, LAMBDA x : x.e \in kinds)

UnitsOf(c) == [k \in 1..Len(c) |-> c[k].u]

Said(e) == \E k \in 1..Len(log) : log[k].e = e

\* Some call of a kind in `kinds` raised during this invocation.
Raised(kinds) == \E k \in 1..Len(log) : log[k].e \in kinds /\ ~log[k].ok

LedgerCalls == {"pending", "executed", "logMigration", "unlogMigration"}
UnitCalls == {"up", "down"}

\* The units whose up() and ledger append both completed in this invocation.
Committed == UnitsOf(SelectSeq(log, LAMBDA x : x.e = "logMigration" /\ x.ok))

\* s without its last n elements.
DropLast(s, n) == SubSeq(s, 1, Len(s) - Min(n, Len(s)))

InMigrate == op.name = "migrate"
InCountRevert == op.name = "revert" /\ op.rname = Undefined /\ op.times >= 1

\* Apply failed and its catch handler has named the broken migration.
FailureReported == InMigrate /\ Said("brokenMigration")

----------------------------------------------------------------------------
\* C1: every finished invocation of migrate, revert, reset or list has closed
\* the connection, whether it returned or threw.
C1_ClosedOnEveryExit == Done => conn = "closed"

\* C2: a migrate run in which a unit's up() or down() raised, and no ledger
\* call did, ends by returning false, never by throwing.
C2_MigrateReturnsFalseOnUnitError ==
  (Done /\ InMigrate /\ Raised(UnitCalls) /\ ~Raised(LedgerCalls))
    => (outcome = "returned" /\ retval = "false")

\* C3: the auto-revert of migrate calls down() on the units of
\* executedFromPending in reverse order: at any moment the units reverted so far
\* are a prefix of the reversed list, and all of it once down() has resolved.
C3_AutoRevertInReverseOrder ==
  (InMigrate /\ op.revertError /\ executedFromPending # <<>>)
    => LET downs == UnitsOf(Calls(log, {"down"}))
           want == Reverse(executedFromPending)
       IN /\ Len(downs) <= Len(want)
          /\ downs = SubSeq(want, 1, Len(downs))
          /\ (pc \in {"m_reverted", "m_close"} => downs = want)

\* C4: when migrate with auto-revert has failed, recovered and returned, the
\* ledger holds no unit of executedFromPending and equals the ledger the run
\* started with.
C4_AutoRevertExact ==
  (Done /\ InMigrate /\ op.revertError /\ Said("errorApplying") /\ outcome = "returned")
    => /\ Range(executedFromPending) \cap Range(ledger) = {}
       /\ ledger = ledger0

C4_Witness ==
  /\ Done /\ InMigrate /\ op.revertError /\ outcome = "returned" /\ retval = "false"
  /\ Len(executedFromPending) >= 1
  /\ ledger0 # <<>>
  /\ UnitsOf(Calls(log, {"unlogMigration"})) = executedFromPending

\* C5: in a failed migrate, executedFromPending is exactly the units committed
\* in this run, it is pendingMigrations restricted to its own members (a subset
\* in pending order), and the reported broken name is a pending name outside it.
C5_PartialFailureSubset ==
  FailureReported
    => /\ executedFromPending = Committed
       /\ executedFromPending
            = SelectSeq(pendingMigrations, LAMBDA p : p \in Range(executedFromPending))
       /\ Reported(log) # Undefined
       /\ Reported(log) \in Range(pendingMigrations)
       /\ Reported(log) \notin Range(executedFromPending)

C5_Witness ==
  /\ FailureReported /\ Done
  /\ Len(executedFromPending) >= 1
  /\ Len(executedFromPending) = Len(pendingMigrations) - 1
  /\ Raised({"logMigration"})

\* C6: the up() and ledger-append calls of a migrate run alternate, unit k of
\* the pending list at calls 2k-1 and 2k, and a call that raised is the last one.
C6_OneAtATimeInOrder ==
  InMigrate
    => LET c == Calls(log, {"up", "logMigration"}) IN
       /\ Len(c) <= 2 * Len(pendingMigrations)
       /\ \A k \in 1..Len(c) :
            /\ c[k].e = (IF k % 2 = 1 THEN "up" ELSE "logMigration")
            /\ c[k].u = pendingMigrations[(k + 1) \div 2]
            /\ (~c[k].ok => k = Len(c))

C6_Witness ==
  /\ InMigrate /\ Done
  /\ LET c == Calls(log, {"up", "logMigration"}) IN
       /\ Len(c) = 3
       /\ ~c[3].ok
       /\ Len(pendingMigrations) = 3

\* C7: a migrate that directly follows a migrate that returned true has an empty
\* pending list, calls no up(), leaves the ledger as it found it and, when its
\* pending query does not raise, reports "no pending" and returns true.
C7_SecondMigrateIsNoOp ==
  (InMigrate /\ prev.name = "migrate" /\ prev.retval = "true")
    => /\ pendingMigrations = <<>>
       /\ Calls(log, {"up", "logMigration", "down", "unlogMigration"}) = <<>>
       /\ ledger = ledger0
       /\ (Done /\ ~Raised(LedgerCalls)
             => outcome = "returned" /\ retval = "true" /\ Said("noPending"))

C7_Witness ==
  /\ InMigrate /\ prev.name = "migrate" /\ prev.retval = "true"
  /\ Done /\ retval = "true" /\ Said("noPending")
  /\ Len(ledger) = NumUnits

\* C8: a migrate without auto-revert calls no down(); its ledger is the ledger
\* it started with followed by the units it committed; and when it failed and
\* the ledger could be read again, it returns false.
C8_NoRevertWithoutFlag ==
  (InMigrate /\ ~op.revertError)
    => /\ Calls(log, {"down", "unlogMigration"}) = <<>>
       /\ ledger = ledger0 \o Committed
       /\ (Done /\ Said("errorApplying") /\ ~Raised({"executed"})
             => outcome = "returned" /\ retval = "false")

C8_Witness ==
  /\ InMigrate /\ ~op.revertError /\ Done
  /\ Said("errorApplying") /\ retval = "false"
  /\ Len(Committed) >= 1
  /\ ledger0 # <<>>

\* C9: revert with no name and times >= 1, when no collaborator call raises,
\* returns normally and leaves the ledger it found without its last
\* min(times, length) records.
C9_RevertCountClamped ==
  (Done /\ InCountRevert /\ ~Raised(LedgerCalls \cup UnitCalls))
    => /\ outcome = "returned"
       /\ ledger = DropLast(ledger0, op.times)
       /\ UnitsOf(Calls(log, {"down"})) = Slice0(Reverse(ledger0), op.times)

C9_Witness ==
  /\ Done /\ InCountRevert /\ outcome = "returned"
  /\ Len(ledger0) >= 2
  /\ op.times > Len(ledger0)
  /\ ledger = <<>>

\* C10: in revert by count (times > 1, no name) the down() and record-removal
\* calls alternate over the ledger's records from the last one backwards, a
\* call that raised is the last one, and while a unit's down() runs that unit
\* is the last record of the ledger.
C10_RevertMostRecentFirst ==
  (op.name = "revert" /\ op.rname = Undefined /\ op.times > 1)
    => LET c == Calls(log, {"down", "unlogMigration"})
           want == Reverse(ledger0)
       IN /\ Len(c) <= 2 * Min(op.times, Len(want))
          /\ \A k \in 1..Len(c) :
               /\ c[k].e = (IF k % 2 = 1 THEN "down" ELSE "unlogMigration")
               /\ c[k].u = want[(k + 1) \div 2]
               /\ (~c[k].ok => k = Len(c))
          /\ (pc = "d_unlog" => ledger # <<>> /\ ledger[Len(ledger)] = Head(todo))

C10_Witness ==
  /\ op.name = "revert" /\ op.rname = Undefined /\ op.times = 2
  /\ Done /\ outcome = "returned"
  /\ Len(ledger0) = 3
  /\ Len(Calls(log, {"down", "unlogMigration"})) = 4

\* C11: revert with no name on an empty ledger, in the default mode (times = 1)
\* and in the count mode (times > 1) alike, when the ledger query does not
\* raise: calls no down(), leaves the ledger empty, returns normally and reports
\* "nothing to revert".
C11_EmptyLedgerRevertReported ==
  (Done /\ InCountRevert /\ ledger0 = <<>> /\ ~Raised(LedgerCalls))
    => /\ Calls(log, {"down", "unlogMigration"}) = <<>>
       /\ ledger = <<>>
       /\ outcome = "returned"
       /\ Said("nothingToRevert")

\* C12: revert with times < 1 and no name throws before any collaborator call
\* or report and leaves the ledger as it was; with a name, times < 1 passes the
\* check, and if the call then throws it is a collaborator that raised.
C12_RevertValidation ==
  (op.name = "revert" /\ op.times < 1 /\ pc # "r_args")
    => IF op.rname = Undefined
       THEN Done /\ outcome = "threw" /\ log = <<>> /\ ledger = ledger0
       ELSE /\ Said("tryingRevert")
            /\ (outcome = "threw"
                  => Raised(LedgerCalls \cup UnitCalls \cup {"findMigration"}))

C12_Witness ==
  /\ op.name = "revert" /\ op.times < 1 /\ op.rname = Undefined
  /\ Done /\ outcome = "threw"
  /\ ledger # <<>> /\ conn = "open"

\* C13: reset calls down() and the record removal alternately over the ledger's
\* records from the last one backwards, each unit at most once; a call that
\* raised is the last call, the error leaves reset, and the ledger is then the
\* ledger reset started with cut after the failing unit; with no failure the
\* ledger ends empty.
C13_ResetStopsAtFailure ==
  op.name = "reset"
    => LET c == Calls(log, {"down", "unlogMigration"})
           want == Reverse(ledger0)
           n == Len(c)
       IN /\ n <= 2 * Len(want)
          /\ \A k \in 1..n :
               /\ c[k].e = (IF k % 2 = 1 THEN "down" ELSE "unlogMigration")
               /\ c[k].u = want[(k + 1) \div 2]
               /\ (~c[k].ok => k = n)
          /\ (Done /\ Raised({"down", "unlogMigration"})
                => /\ outcome = "threw"
                   /\ ledger = SubSeq(ledger0, 1, Len(ledger0) + 1 - ((n + 1) \div 2))
                   /\ c[n].u = ledger[Len(ledger)])
          /\ (Done /\ outcome = "returned" => ledger = <<>> /\ n = 2 * Len(want))

C13_Witness ==
  /\ op.name = "reset" /\ Done /\ outcome = "threw"
  /\ Len(ledger0) = 3
  /\ Len(ledger) = 2
  /\ LET c == Calls(log, {"down"}) IN Len(c) = 2 /\ ~c[2].ok

\* C14: list calls no up(), down() or ledger write and leaves the ledger as it
\* was; in pending mode the reported names are the files missing from the
\* ledger, each once and in file order, and the reported count is their number.
C14_ListIsPureRead ==
  op.name = "list"
    => /\ Calls(log, {"up", "down", "logMigration", "unlogMigration"}) = <<>>
       /\ ledger = ledger0
       /\ (op.status = "pending" /\ Said("foundCount")
             => LET names == UnitsOf(Calls(log, {"foundName"}))
                    count == Calls(log, {"foundCount"})
                IN /\ Len(count) = 1
                   /\ count[1].u = Len(names)
                   /\ Range(names) = Units \ Range(ledger)
                   /\ \A a, b \in 1..Len(names) : a < b => names[a] < names[b])

C14_Witness ==
  /\ op.name = "list" /\ op.status = "pending" /\ Done /\ outcome = "returned"
  /\ Len(ledger) = 1
  /\ Len(Calls(log, {"foundName"})) = NumUnits - 1

\* The up() or ledger-append call that raised in this migrate run, if any.
FailedUnitCalls == SelectSeq(log, LAMBDA x : x.e \in {"up", "logMigration"} /\ ~x.ok)

\* C15: when a unit's up() or ledger append raised in a migrate run and the
\* failure was reported, the reported name is that unit; it is the pending name
\* right after the last committed one, the first pending name when none was.
C15_BrokenNameIsFailedUnit ==
  (FailureReported /\ FailedUnitCalls # <<>>)
    => /\ Len(FailedUnitCalls) = 1
       /\ Reported(log) = FailedUnitCalls[1].u
       /\ Len(Committed) < Len(pendingMigrations)
       /\ Committed = SubSeq(pendingMigrations, 1, Len(Committed))
       /\ Reported(log) = pendingMigrations[Len(Committed) + 1]

C15_Witness ==
  /\ FailureReported /\ Done
  /\ Len(pendingMigrations) = 3
  /\ Len(Committed) = 2
  /\ Len(FailedUnitCalls) = 1
  /\ FailedUnitCalls[1].e = "logMigration"
  /\ Reported(log) = 3

\* C16: a migrate run calls up() at most once per unit and never on a unit the
\* ledger held when it started; and the pending list of a migrate that directly
\* follows a migrate that failed without auto-revert starts at the name that
\* run reported.
C16_NoRetryAndResume ==
  InMigrate
    => LET ups == UnitsOf(Calls(log, {"up"})) IN
       /\ \A a, b \in 1..Len(ups) : a # b => ups[a] # ups[b]
       /\ Range(ups) \cap Range(ledger0) = {}
       /\ (prev.name = "migrate" /\ prev.retval = "false" /\ ~prev.revertError
             /\ Said("pending") /\ ~Raised({"pending"})
             => /\ pendingMigrations # <<>>
                /\ pendingMigrations[1] = prev.broken)

C16_Witness ==
  /\ InMigrate /\ Done /\ retval = "true"
  /\ prev.name = "migrate" /\ prev.retval = "false" /\ ~prev.revertError
  /\ prev.broken = 2
  /\ UnitsOf(Calls(log, {"up"})) = <<2, 3>>

\* Positions of the log that hold an event of a kind in `kinds`.
At(kinds) == {k \in 1..Len(log) : log[k].e \in kinds}

\* Every event of a kind in `later` comes after some event of kind `earlier`.
Follows(later, earlier) == \A k \in At(later) : \E j \in At({earlier}) : j < k

\* C17: the report lines of a migrate run come in the order of the algorithm:
\* lookingForPending first and once; applyingPending only with a non-empty
\* pending list and before every up(); appliedCount and appliedName only once
\* every pending unit is committed; errorApplying before brokenMigration;
\* reverting and revertedName only after brokenMigration, with auto-revert
\* requested and executedFromPending non-empty; never appliedCount and
\* errorApplying in one run.
C17_ReportOrder ==
  InMigrate
    => /\ At({"lookingForPending"}) = {1}
       /\ (Said("applyingPending") => pendingMigrations # <<>>)
       /\ Follows({"up"}, "applyingPending")
       /\ \A k \in At({"appliedCount", "appliedName"}) :
            UnitsOf(SelectSeq(SubSeq(log, 1, k - 1),
                              LAMBDA x : x.e = "logMigration" /\ x.ok))
              = pendingMigrations
       /\ Follows({"appliedName"}, "appliedCount")
       /\ Follows({"brokenMigration"}, "errorApplying")
       /\ Follows({"reverting", "revertedName"}, "brokenMigration")
       /\ Follows({"revertedName"}, "reverting")
       /\ (Said("reverting") => op.revertError /\ executedFromPending # <<>>)
       /\ ~(Said("appliedCount") /\ Said("errorApplying"))

C17_Witness ==
  /\ InMigrate /\ Done /\ outcome = "returned"
  /\ Said("revertedName")
  /\ Len(executedFromPending) = 2

\* C18: when migrate returns, it returns true exactly if the ledger holds every
\* file, which is exactly if the pending list was empty or was committed whole;
\* it returns false exactly if some pending unit was not committed.
C18_ResultMatchesLedger ==
  (Done /\ InMigrate /\ outcome = "returned")
    => /\ retval \in {"true", "false"}
       /\ (retval = "true" <=> Range(ledger) = Units)
       /\ (retval = "true" <=> Committed = pendingMigrations)
       /\ (retval = "false" <=> \E u \in Range(pendingMigrations) : u \notin Range(Committed))

C18_Witness ==
  /\ Done /\ InMigrate /\ outcome = "returned" /\ retval = "true"
  /\ Len(Committed) = 2
  /\ ledger0 # <<>>

\* C19: in every state, whatever operations have run, the ledger holds no name
\* twice and only names of files, and a unit whose up() was just called is not
\* in the ledger.
C19_LedgerWellFormed ==
  /\ \A a, b \in 1..Len(ledger) : a # b => ledger[a] # ledger[b]
  /\ Range(ledger) \subseteq Units
  /\ (log # <<>> /\ log[Len(log)].e = "up" => log[Len(log)].u \notin Range(ledger))

C19_Witness ==
  /\ pc = "u_log"
  /\ log[Len(log)].e = "up" /\ log[Len(log)].u = 1
  /\ ledger = <<2, 3>>
  /\ prev.name = "revert"

\* C20: every ledger query, ledger write, up() and down() is issued on an open
\* connection, and close is only called on an open connection.
C20_NoUseAfterClose ==
  \A k \in At(LedgerCalls \cup UnitCalls \cup {"close"}) : log[k].on = "open"

====
